---- MODULE Spec2Model ----
(***************************************************************************)
(* Model of src/src/data_quality.py: the two data-quality checks and the   *)
(* reconciliation of their results into a cleaned and a flagged table.     *)
(*                                                                         *)
(* A DataFrame is a record [columns, rows]: the set of column names and    *)
(* the sequence of rows in index order, each row a function from the       *)
(* column names to the cell values.  total_cost is a signed decimal and    *)
(* only its sign is read by the code, so it is an integer here.  A         *)
(* percentile is an integer percentage pct (percentile = pct/100) and a    *)
(* quantile is kept in hundredths, so that linear interpolation is exact.  *)
(* A Python string that the code builds, sorts or joins is a sequence of   *)
(* one-character strings, compared by code point as Python does.           *)
(***************************************************************************)
EXTENDS Integers, Sequences, FiniteSets

\* ------------------------------------------------------------- bounds
MaxRows == 2
MaxEncounters == 3
MaxOutlierRows == 5
MaxOrderedRows == 3

\* ------------------------------------------------------------- schema
key_cols == <<"patient_id", "facility_id", "year_month">>

KeyColSet == {key_cols[i] : i \in 1..Len(key_cols)}

InputColumns ==
  KeyColSet \cup {"total_encounters", "total_cost", "distinct_diagnosis_count"}

Patients == {"P001", "P002"}
Facilities == {"F001"}
Months == {"2025-01"}
Encounters == 1..MaxEncounters
Costs == {-1, 0, 1}
DiagnosisCounts == {1}

FullRows ==
  [patient_id : Patients, facility_id : Facilities, year_month : Months,
   total_encounters : Encounters, total_cost : Costs,
   distinct_diagnosis_count : DiagnosisCounts]

RowsOver(cols) == {[c \in cols |-> r[c]] : r \in FullRows}

DataFrames(cols) ==
  {[columns |-> cols, rows |-> rs] :
     rs \in UNION {[1..n -> RowsOver(cols)] : n \in 0..MaxRows}}

\* A key-unique table of the given total_encounters, alike in all else: an
\* input of the outlier check.
PatientNames ==
  <<"P001", "P002", "P003", "P004", "P005", "P006", "P007", "P008">>

EncounterFrame(es) ==
  [columns |-> InputColumns,
   rows |-> [i \in 1..Len(es) |->
               [patient_id |-> PatientNames[i], facility_id |-> "F001",
                year_month |-> "2025-01", total_encounters |-> es[i],
                total_cost |-> 1, distinct_diagnosis_count |-> 1]]]

\* ------------------------------------------------------------- frames
NoFrame == [columns |-> {}, rows |-> <<>>]

Outcome(e, input, frame) == [err |-> e, df |-> input, ret |-> frame]

\* DataFrame.empty: some axis has length 0.
Empty(frame) == frame.rows = <<>> \/ frame.columns = {}

\* frame[col] = value: the scalar is broadcast to every row.
SetColumn(frame, col, value) ==
  [columns |-> frame.columns \cup {col},
   rows |-> [i \in 1..Len(frame.rows) |->
               [c \in frame.columns \cup {col} |->
                  IF c = col THEN value ELSE frame.rows[i][c]]]]

\* frame.drop(columns=[col])
DropColumn(frame, col) ==
  [columns |-> frame.columns \ {col},
   rows |-> [i \in 1..Len(frame.rows) |->
               [c \in frame.columns \ {col} |-> frame.rows[i][c]]]]

Key(row) == [i \in 1..Len(key_cols) |-> row[key_cols[i]]]

\* ------------------------------------------------------------- strings
Alphabet ==
  <<" ", "(", ")", ",", "0", "1", "2", "3", "4", "5", "6", "7", "8", "9",
    ";", ">", "_", "a", "b", "c", "d", "e", "f", "g", "h", "i", "j", "k",
    "l", "m", "n", "o", "p", "q", "r", "s", "t", "u", "v", "w", "x", "y",
    "z">>

Ord(ch) == CHOOSE i \in 1..Len(Alphabet) : Alphabet[i] = ch

\* Python's str.__lt__: by code point, a proper prefix is smaller.
RECURSIVE StrLess(_, _)
StrLess(a, b) ==
  IF b = <<>> THEN FALSE
  ELSE IF a = <<>> THEN TRUE
  ELSE IF Head(a) # Head(b) THEN Ord(Head(a)) < Ord(Head(b))
  ELSE StrLess(Tail(a), Tail(b))

Digit(d) == Alphabet[5 + d]

\* format(n, "d") of a natural number.
RECURSIVE Digits(_)
Digits(n) == IF n < 10 THEN <<Digit(n)>> ELSE Digits(n \div 10) \o <<Digit(n % 10)>>

negative_cost == <<"n", "e", "g", "a", "t", "i", "v", "e", "_", "c", "o", "s", "t">>

high_encounter_count ==
  <<"h", "i", "g", "h", "_", "e", "n", "c", "o", "u", "n", "t", "e", "r",
    "_", "c", "o", "u", "n", "t">>

\* ------------------------------------------------------------- checks
\* Fault: the reason column is assigned on the caller's table.
MutantAssignOnInput(df) ==
  IF "total_cost" \notin df.columns THEN Outcome("KeyError", df, NoFrame)
  ELSE LET tagged == SetColumn(df, "flag_reason", negative_cost)
       IN Outcome("none", tagged,
                  [tagged EXCEPT !.rows = SelectSeq(tagged.rows, LAMBDA r : r["total_cost"] < 0)])

\* Fault: a total_cost of exactly 0 is flagged.
MutantNonStrictCost(df) ==
  IF "total_cost" \notin df.columns THEN Outcome("KeyError", df, NoFrame)
  ELSE LET flagged == [df EXCEPT !.rows = SelectSeq(df.rows, LAMBDA r : r["total_cost"] <= 0)]
       IN Outcome("none", df, SetColumn(flagged, "flag_reason", negative_cost))

\* flag_negative_costs: the rows with total_cost < 0, copied, with the
\* reason column added to the copy.  df is the caller's table after the call.
flag_negative_costs(df) ==
  IF "total_cost" \notin df.columns THEN Outcome("KeyError", df, NoFrame)
  ELSE LET flagged == [df EXCEPT !.rows = SelectSeq(df.rows, LAMBDA r : r["total_cost"] < 0)]
       IN Outcome("none", df, SetColumn(flagged, "flag_reason", negative_cost))

\* ------------------------------------------------------------- quantile
RECURSIVE Insert(_, _)
Insert(x, sorted) ==
  IF sorted = <<>> THEN <<x>>
  ELSE IF x <= Head(sorted) THEN <<x>> \o sorted
  ELSE <<Head(sorted)>> \o Insert(x, Tail(sorted))

RECURSIVE Sorted(_)
Sorted(values) ==
  IF values = <<>> THEN <<>> ELSE Insert(Head(values), Sorted(Tail(values)))

NaN == [nan |-> TRUE, hundredths |-> 0]

\* Fault: the quantile at 1 - percentile.
MutantComplementQuantile(values, pct) ==
  LET n == Len(values)
      s == Sorted(values)
      pos == (100 - pct) * (n - 1)
      lo == pos \div 100
      frac == pos % 100
      hi == IF lo + 1 > n - 1 THEN n - 1 ELSE lo + 1
  IN IF n = 0 THEN NaN
     ELSE [nan |-> FALSE,
           hundredths |-> s[lo + 1] * 100 + (s[hi + 1] - s[lo + 1]) * frac]

\* Series.quantile(percentile), interpolation="linear": the value at the
\* virtual index percentile * (n - 1) of the sorted values, interpolated
\* between its two neighbours; NaN for an empty column.
quantile(values, pct) ==
  LET n == Len(values)
      s == Sorted(values)
      pos == pct * (n - 1)
      lo == pos \div 100
      frac == pos % 100
      hi == IF lo + 1 > n - 1 THEN n - 1 ELSE lo + 1
  IN IF n = 0 THEN NaN
     ELSE [nan |-> FALSE,
           hundredths |-> s[lo + 1] * 100 + (s[hi + 1] - s[lo + 1]) * frac]

\* x > threshold; every comparison with NaN is False.
Exceeds(x, threshold) == ~threshold.nan /\ x * 100 > threshold.hundredths

\* f"{threshold:.0f}": no decimals, ties to the even neighbour.
FormatThreshold(threshold) ==
  IF threshold.nan THEN <<"n", "a", "n">>
  ELSE LET q == threshold.hundredths \div 100
           r == threshold.hundredths % 100
       IN Digits(IF r < 50 THEN q
                 ELSE IF r > 50 THEN q + 1
                 ELSE IF q % 2 = 0 THEN q ELSE q + 1)

\* f"high_encounter_count (>{threshold:.0f}, p{percentile*100:.0f})"
HighReason(threshold, pct) ==
  high_encounter_count \o <<" ", "(", ">">> \o FormatThreshold(threshold)
    \o <<",", " ", "p">> \o Digits(pct) \o <<")">>

Column(frame, col) == [i \in 1..Len(frame.rows) |-> frame.rows[i][col]]

\* Fault: the threshold value itself is flagged.
MutantNonStrictCount(df, pct) ==
  IF "total_encounters" \notin df.columns THEN Outcome("KeyError", df, NoFrame)
  ELSE LET threshold == quantile(Column(df, "total_encounters"), pct)
           flagged == [df EXCEPT !.rows =
                         SelectSeq(df.rows, LAMBDA r :
                           ~threshold.nan
                             /\ r["total_encounters"] * 100 >= threshold.hundredths)]
       IN Outcome("none", df, SetColumn(flagged, "flag_reason", HighReason(threshold, pct)))

\* Fault: the quantile of an empty column is an error.
MutantEmptyQuantileRaises(df, pct) ==
  IF "total_encounters" \notin df.columns THEN Outcome("KeyError", df, NoFrame)
  ELSE IF df.rows = <<>> THEN Outcome("ValueError", df, NoFrame)
  ELSE LET threshold == quantile(Column(df, "total_encounters"), pct)
           flagged == [df EXCEPT !.rows =
                         SelectSeq(df.rows, LAMBDA r :
                           Exceeds(r["total_encounters"], threshold))]
       IN Outcome("none", df, SetColumn(flagged, "flag_reason", HighReason(threshold, pct)))

\* flag_high_encounter_counts: the rows above the quantile of the whole
\* column, copied, with the reason column added to the copy.
flag_high_encounter_counts(df, pct) ==
  IF "total_encounters" \notin df.columns THEN Outcome("KeyError", df, NoFrame)
  ELSE LET threshold == quantile(Column(df, "total_encounters"), pct)
           flagged == [df EXCEPT !.rows =
                         SelectSeq(df.rows, LAMBDA r :
                           Exceeds(r["total_encounters"], threshold))]
       IN Outcome("none", df, SetColumn(flagged, "flag_reason", HighReason(threshold, pct)))

\* ------------------------------------------------------------- reconciliation
DefaultPercentile == 99

\* pd.concat([a, b], ignore_index=True)
Concat(a, b) == [columns |-> a.columns \cup b.columns, rows |-> a.rows \o b.rows]

\* Series.unique(): the distinct values in order of first appearance.
RECURSIVE Unique(_, _)
Unique(values, seen) ==
  IF values = <<>> THEN <<>>
  ELSE IF Head(values) \in seen THEN Unique(Tail(values), seen)
  ELSE <<Head(values)>> \o Unique(Tail(values), seen \cup {Head(values)})

RECURSIVE InsertStr(_, _)
InsertStr(x, sorted) ==
  IF sorted = <<>> THEN <<x>>
  ELSE IF StrLess(Head(sorted), x) THEN <<Head(sorted)>> \o InsertStr(x, Tail(sorted))
  ELSE <<x>> \o sorted

\* sorted(strings)
RECURSIVE SortedStrs(_)
SortedStrs(strs) ==
  IF strs = <<>> THEN <<>> ELSE InsertStr(Head(strs), SortedStrs(Tail(strs)))

\* "; ".join(strings)
RECURSIVE Join(_)
Join(strs) ==
  IF strs = <<>> THEN <<>>
  ELSE IF Len(strs) = 1 THEN Head(strs)
  ELSE Head(strs) \o <<";", " ">> \o Join(Tail(strs))

\* Fault: the reasons are joined in the order the checks produced them.
MutantUnsortedReasons(reasons) == Join(Unique(reasons, {}))

\* lambda x: "; ".join(sorted(x.unique()))
JoinReasons(reasons) == Join(SortedStrs(Unique(reasons, {})))

\* flagged.groupby(key_cols)["flag_reason"].apply(...).reset_index(): one row
\* per group, the key columns and the joined reasons.  pandas orders the
\* groups by key; the merge below reads this frame by key only, and the rows
\* are kept here in the order in which the keys first occur.
flag_summary(flagged) ==
  LET keys == Unique([i \in 1..Len(flagged.rows) |-> Key(flagged.rows[i])], {})
      Group(k) == SelectSeq(flagged.rows, LAMBDA r : Key(r) = k)
  IN [columns |-> KeyColSet \cup {"flag_reason"},
      rows |-> [g \in 1..Len(keys) |->
                  [c \in KeyColSet \cup {"flag_reason"} |->
                     IF c = "flag_reason"
                     THEN JoinReasons(Column([rows |-> Group(keys[g])], "flag_reason"))
                     ELSE Group(keys[g])[1][c]]]]

RECURSIVE FirstPerKey(_, _)
FirstPerKey(rows, seen) ==
  IF rows = <<>> THEN <<>>
  ELSE IF Key(Head(rows)) \in seen THEN FirstPerKey(Tail(rows), seen)
  ELSE <<Head(rows)>> \o FirstPerKey(Tail(rows), seen \cup {Key(Head(rows))})

\* Fault: every occurrence of a key is kept.
MutantKeepDuplicates(frame) == frame

\* frame.drop_duplicates(subset=key_cols): the first row of every key.
drop_duplicates(frame) == [frame EXCEPT !.rows = FirstPerKey(frame.rows, {})]

MissingCell == <<"N", "a", "N">>

MergedRow(cols, l, m, tag) ==
  [c \in cols |-> IF c = "_merge" THEN tag
                  ELSE IF c \in DOMAIN l THEN l[c]
                  ELSE IF c \in DOMAIN m THEN m[c]
                  ELSE MissingCell]

RECURSIVE MergeRows(_, _, _)
MergeRows(lrows, rrows, cols) ==
  IF lrows = <<>> THEN <<>>
  ELSE LET l == Head(lrows)
           ms == SelectSeq(rrows, LAMBDA m : Key(m) = Key(l))
       IN (IF ms = <<>> THEN <<MergedRow(cols, l, <<>>, "left_only")>>
           ELSE [j \in 1..Len(ms) |-> MergedRow(cols, l, ms[j], "both")])
            \o MergeRows(Tail(lrows), rrows, cols)

\* left.merge(right, on=key_cols, how="left"[, indicator=True]): the rows of
\* left in order, each once per matching row of right, or once when none
\* matches; _merge tells which.
merge(left, right, indicator) ==
  LET cols == left.columns \cup right.columns
                \cup (IF indicator THEN {"_merge"} ELSE {})
  IN [columns |-> cols, rows |-> MergeRows(left.rows, right.rows, cols)]

\* frame[key_cols]
KeyColumns(frame) ==
  [columns |-> KeyColSet,
   rows |-> [i \in 1..Len(frame.rows) |->
               [c \in KeyColSet |-> frame.rows[i][c]]]]

\* Fault: the matched rows are selected instead of the unmatched ones.
MutantKeepMatched(merged) ==
  DropColumn([merged EXCEPT !.rows =
                SelectSeq(merged.rows, LAMBDA r : r["_merge"] = "both")],
             "_merge")

\* Fault: the indicator column is left in the result.
MutantKeepIndicator(merged) ==
  [merged EXCEPT !.rows =
     SelectSeq(merged.rows, LAMBDA r : r["_merge"] = "left_only")]

\* merged[merged["_merge"] == "left_only"].drop(columns=["_merge"])
left_only(merged) ==
  DropColumn([merged EXCEPT !.rows =
                SelectSeq(merged.rows, LAMBDA r : r["_merge"] = "left_only")],
             "_merge")

Result(e, input, c, f) == [err |-> e, df |-> input, cleaned |-> c, flagged |-> f]

\* run_quality_checks: both checks on the same table object, their rows
\* concatenated (negative costs first), one flagged row per key with the
\* reasons of its group, and the input rows of no flagged key as cleaned.
\* A missing key column is met only by groupby, on a non-empty union.
run_quality_checks(df) ==
  LET neg_cost == flag_negative_costs(df)
      high_enc == flag_high_encounter_counts(neg_cost.df, DefaultPercentile)
      input == high_enc.df
      unioned == Concat(neg_cost.ret, high_enc.ret)
      flagged ==
        IF Empty(unioned) THEN unioned
        ELSE merge(drop_duplicates(DropColumn(unioned, "flag_reason")),
                   flag_summary(unioned), FALSE)
  IN IF neg_cost.err # "none" THEN Result(neg_cost.err, neg_cost.df, NoFrame, NoFrame)
     ELSE IF high_enc.err # "none" THEN Result(high_enc.err, input, NoFrame, NoFrame)
     ELSE IF ~Empty(unioned) /\ ~(KeyColSet \subseteq unioned.columns)
       THEN Result("KeyError", input, NoFrame, NoFrame)
     ELSE IF Empty(flagged) THEN Result("none", input, input, flagged)
     ELSE Result("none", input,
                 left_only(merge(input, KeyColumns(flagged), TRUE)), flagged)

\* ------------------------------------------------------------- state
VARIABLES
  df,          \* the caller's table object
  called,      \* the function called last, "none" before any call
  percentile,  \* its percentile argument (a percentage), 0 when it has none
  err,         \* the exception it raised, "none" when it returned
  result,      \* the frame a check returned
  cleaned,     \* the first frame run_quality_checks returned
  flagged      \* the second frame run_quality_checks returned

vars == <<df, called, percentile, err, result, cleaned, flagged>>

Percentiles == {25, 50, DefaultPercentile}

Start(frame) ==
  /\ df = frame
  /\ called = "none"
  /\ percentile = 0
  /\ err = "none"
  /\ result = NoFrame
  /\ cleaned = NoFrame
  /\ flagged = NoFrame

\* The tables of the upstream aggregation: all six columns.
Init == \E frame \in DataFrames(InputColumns) : Start(frame)

\* Tables that lack one of the primary-key columns.
InitKeyless ==
  \E k \in KeyColSet : \E frame \in DataFrames(InputColumns \ {k}) : Start(frame)

\* Key-unique tables that differ in total_encounters alone.
InitEncounters ==
  \E n \in 0..MaxOutlierRows : \E es \in [1..n -> Encounters] :
    Start(EncounterFrame(es))

FlagNegativeCosts ==
  LET out == flag_negative_costs(df)
  IN /\ df' = out.df
     /\ called' = "flag_negative_costs"
     /\ percentile' = 0
     /\ err' = out.err
     /\ result' = out.ret
     /\ cleaned' = NoFrame
     /\ flagged' = NoFrame

FlagHighEncounterCounts(pct) ==
  LET out == flag_high_encounter_counts(df, pct)
  IN /\ df' = out.df
     /\ called' = "flag_high_encounter_counts"
     /\ percentile' = pct
     /\ err' = out.err
     /\ result' = out.ret
     /\ cleaned' = NoFrame
     /\ flagged' = NoFrame

RunQualityChecks ==
  LET out == run_quality_checks(df)
  IN /\ df' = out.df
     /\ called' = "run_quality_checks"
     /\ percentile' = 0
     /\ err' = out.err
     /\ result' = NoFrame
     /\ cleaned' = out.cleaned
     /\ flagged' = out.flagged

Next ==
  \/ FlagNegativeCosts
  \/ \E pct \in Percentiles : FlagHighEncounterCounts(pct)
  \/ RunQualityChecks

Spec == Init /\ [][Next]_vars

SpecKeyless == InitKeyless /\ [][Next]_vars

SpecEncounters == InitEncounters /\ [][Next]_vars

\* Tables of up to MaxOrderedRows rows, keys repeated or not, whose costs are
\* negative or positive and whose encounters are the least or the greatest.
OrderedRows ==
  [patient_id : Patients, facility_id : Facilities, year_month : Months,
   total_encounters : {1, MaxEncounters}, total_cost : {-1, 1},
   distinct_diagnosis_count : DiagnosisCounts]

InitOrdered ==
  \E n \in 0..MaxOrderedRows : \E rs \in [1..n -> OrderedRows] :
    Start([columns |-> InputColumns, rows |-> rs])

SpecOrdered == InitOrdered /\ [][Next]_vars

\* ------------------------------------------------------------- properties
Returned == called = "run_quality_checks" /\ err = "none"

KeysOf(frame) == {Key(frame.rows[i]) : i \in 1..Len(frame.rows)}

KeyUnique(frame) ==
  \A i, j \in 1..Len(frame.rows) :
    Key(frame.rows[i]) = Key(frame.rows[j]) => i = j

RowsOf(frame) == {frame.rows[i] : i \in 1..Len(frame.rows)}

\* sub in s
Contains(s, sub) ==
  \E i \in 1..(Len(s) - Len(sub) + 1) : SubSeq(s, i, i + Len(sub) - 1) = sub

AllPercentiles == 1..99

\* C1 as claimed: for every input table, key-unique or not,
\* len(cleaned) + len(flagged) is the number of distinct keys of the input.
C1_PartitionCompleteness ==
  Returned => Len(cleaned.rows) + Len(flagged.rows) = Cardinality(KeysOf(df))

\* C1 as amended: the distinct keys of cleaned and the rows of flagged
\* together count the distinct keys of the input, and for a key-unique input
\* len(cleaned) + len(flagged) is that count, which is len(input).
C1_PartitionCompletenessByKey ==
  Returned =>
    /\ Cardinality(KeysOf(cleaned)) + Len(flagged.rows) = Cardinality(KeysOf(df))
    /\ KeyUnique(df) =>
         /\ Len(cleaned.rows) + Len(flagged.rows) = Cardinality(KeysOf(df))
         /\ Len(cleaned.rows) + Len(flagged.rows) = Len(df.rows)

C1_Witness ==
  /\ Returned
  /\ KeyUnique(df)
  /\ Len(df.rows) >= 2
  /\ cleaned.rows # <<>>
  /\ \E i \in 1..Len(flagged.rows) :
       Contains(flagged.rows[i]["flag_reason"], <<";", " ">>)

\* C2: no key is both in the cleaned and in the flagged table.
C2_Disjointness == Returned => KeysOf(cleaned) \cap KeysOf(flagged) = {}

C2_Witness ==
  /\ Returned
  /\ Len(df.rows) = 2
  /\ Len(cleaned.rows) = 1
  /\ Len(flagged.rows) = 1

\* C3: a flagged row whose reason contains "negative_cost" has a negative
\* total_cost, and every cleaned row has a total_cost of at least 0.
C3_NegativeCostSoundness ==
  Returned =>
    /\ \A i \in 1..Len(flagged.rows) :
         Contains(flagged.rows[i]["flag_reason"], negative_cost)
           => flagged.rows[i]["total_cost"] < 0
    /\ \A i \in 1..Len(cleaned.rows) : cleaned.rows[i]["total_cost"] >= 0

C3_Witness ==
  /\ Returned
  /\ \E i \in 1..Len(cleaned.rows) : cleaned.rows[i]["total_cost"] = 0
  /\ \E i \in 1..Len(flagged.rows) :
       /\ Contains(flagged.rows[i]["flag_reason"], negative_cost)
       /\ flagged.rows[i]["total_cost"] < 0

ZeroCostRows == {r \in RowsOf(df) : r["total_cost"] = 0}

\* C4 as claimed: every input row whose total_cost is 0 is in the cleaned
\* table, and no row with total_cost 0 carries the reason "negative_cost".
C4_ZeroCostInCleaned ==
  Returned =>
    /\ ZeroCostRows \subseteq RowsOf(cleaned)
    /\ \A r \in RowsOf(flagged) :
         r["total_cost"] = 0 => ~Contains(r["flag_reason"], negative_cost)

\* C4 as amended: flag_negative_costs returns no row whose total_cost is 0,
\* no flagged row with total_cost 0 carries the reason "negative_cost", and
\* an input row with total_cost 0 is in the cleaned table exactly when its
\* key is not a flagged key.
C4_ZeroCostBoundary ==
  /\ (called = "flag_negative_costs" /\ err = "none") =>
       \A r \in RowsOf(result) : r["total_cost"] # 0
  /\ Returned =>
       /\ \A r \in RowsOf(flagged) :
            r["total_cost"] = 0 => ~Contains(r["flag_reason"], negative_cost)
       /\ \A r \in ZeroCostRows :
            r \in RowsOf(cleaned) <=> Key(r) \notin KeysOf(flagged)

C4_Witness ==
  /\ Returned
  /\ \E r \in ZeroCostRows : r \in RowsOf(cleaned)
  /\ \E r \in RowsOf(flagged) : r["total_cost"] = 0

\* The checks that match a key, read off the input table.
NegativeCostKeys == {Key(r) : r \in {x \in RowsOf(df) : x["total_cost"] < 0}}

DefaultThreshold == quantile(Column(df, "total_encounters"), DefaultPercentile)

HighEncounterKeys ==
  {Key(r) : r \in {x \in RowsOf(df) : Exceeds(x["total_encounters"], DefaultThreshold)}}

\* C5: the flagged table has exactly one row for every key that a check
\* matched and no other row; its flag_reason is "negative_cost", the
\* high_encounter_count reason, or, when both checks matched the key,
\* the high_encounter_count reason, "; " and "negative_cost", in that order.
C5_Consolidation ==
  Returned =>
    /\ KeyUnique(flagged)
    /\ KeysOf(flagged) = NegativeCostKeys \cup HighEncounterKeys
    /\ \A r \in RowsOf(flagged) :
         r["flag_reason"] =
           IF Key(r) \in NegativeCostKeys \cap HighEncounterKeys
             THEN HighReason(DefaultThreshold, DefaultPercentile)
                    \o <<";", " ">> \o negative_cost
           ELSE IF Key(r) \in NegativeCostKeys THEN negative_cost
           ELSE HighReason(DefaultThreshold, DefaultPercentile)

C5_Witness ==
  /\ Returned
  /\ Len(flagged.rows) = 2
  /\ \E r \in RowsOf(flagged) :
       r["flag_reason"] =
         <<"h", "i", "g", "h", "_", "e", "n", "c", "o", "u", "n", "t", "e", "r",
           "_", "c", "o", "u", "n", "t", " ", "(", ">", "3", ",", " ", "p", "9",
           "9", ")", ";", " ", "n", "e", "g", "a", "t", "i", "v", "e", "_", "c",
           "o", "s", "t">>
  /\ \E r \in RowsOf(flagged) : r["flag_reason"] = negative_cost

Flagged(pct) == Len(flag_high_encounter_counts(df, pct).ret.rows)

CheckedHigh == called = "flag_high_encounter_counts" /\ err = "none"

\* C6: a call at a percentile returns at least as many rows as a call on the
\* same table at any higher percentile, and at most as many as a call at any
\* lower one.
C6_OutlierMonotonicity ==
  CheckedHigh =>
    \A pct \in AllPercentiles :
      /\ pct <= percentile => Flagged(pct) >= Len(result.rows)
      /\ pct >= percentile => Flagged(pct) <= Len(result.rows)

C6_Witness ==
  /\ CheckedHigh
  /\ percentile = 50
  /\ Len(df.rows) = 5
  /\ Len(result.rows) = 2
  /\ Flagged(25) = 3
  /\ Flagged(DefaultPercentile) = 0

Uniform(frame) ==
  \A i, j \in 1..Len(frame.rows) :
    frame.rows[i]["total_encounters"] = frame.rows[j]["total_encounters"]

\* C7: on a non-empty table whose total_encounters are all equal, the
\* outlier check returns no row, at every percentile.
C7_UniformNoOp ==
  (CheckedHigh /\ df.rows # <<>> /\ Uniform(df)) =>
    /\ result.rows = <<>>
    /\ \A pct \in AllPercentiles : Flagged(pct) = 0

C7_Witness ==
  /\ CheckedHigh
  /\ Len(df.rows) = 3
  /\ Uniform(df)
  /\ df.rows[1]["total_encounters"] = 2
  /\ result.rows = <<>>

\* C8: no call changes the caller's table: its rows, their order and its
\* columns are the same after the call as before it.
C8_NoMutation == [][df' = df]_vars

C8_Witness ==
  /\ Returned
  /\ flagged.rows # <<>>
  /\ cleaned.rows # <<>>
  /\ df.columns = InputColumns
  /\ "flag_reason" \in flagged.columns

\* C9: on a table with the six columns and no rows, both checks and
\* run_quality_checks return without error, and every returned table has
\* no rows.
C9_EmptyInput ==
  (called # "none" /\ df.columns = InputColumns /\ df.rows = <<>>) =>
    /\ err = "none"
    /\ result.rows = <<>>
    /\ cleaned.rows = <<>>
    /\ flagged.rows = <<>>
    /\ called = "run_quality_checks" => cleaned.columns = InputColumns

C9_Witness ==
  /\ Returned
  /\ df.columns = InputColumns
  /\ df.rows = <<>>
  /\ cleaned.rows = <<>>
  /\ flagged.rows = <<>>

\* C10: on a table that lacks a primary-key column, run_quality_checks
\* raises and returns no tables.
C10_MissingKeyColumnFails ==
  (called = "run_quality_checks" /\ ~(KeyColSet \subseteq df.columns)) =>
    err # "none"

\* C11: the cleaned table has the columns of the input and, in input order
\* and once each, exactly the input rows whose key is not a flagged key;
\* when no check matches a row it is the whole input and flagged has no rows.
C11_CleanedConstruction ==
  Returned =>
    /\ cleaned.columns = df.columns
    /\ cleaned.rows = SelectSeq(df.rows, LAMBDA r : Key(r) \notin KeysOf(flagged))
    /\ \A i \in 1..Len(cleaned.rows) : DOMAIN cleaned.rows[i] = InputColumns
    /\ (NegativeCostKeys \cup HighEncounterKeys = {}) =>
         (cleaned = df /\ flagged.rows = <<>>)

C11_Witness ==
  /\ Returned
  /\ Len(df.rows) = 3
  /\ Len(flagged.rows) = 1
  /\ Key(df.rows[2]) \in KeysOf(flagged)
  /\ cleaned.rows = <<df.rows[1], df.rows[3]>>
  /\ df.rows[1] # df.rows[3]

====
